---- MODULE Spec2Model ----
(***************************************************************************)
(* A model of the RAG ingestion and retrieval core of BOOK_CREATOR:        *)
(*   rag/pdf_processor.py  DocumentProcessor (process_document, chunk_text)*)
(*   rag/ingest.py         ingest_file, ingest_directory, clear_collection,*)
(*                         get_collection_stats                            *)
(*   rag/retrieve_backup.py fact_pack                                      *)
(*                                                                         *)
(* Texts are sequences of one-character strings.  Python's indices are     *)
(* 0-based; At(s, i) reads s[i].  Slices and str.rfind use Python's index  *)
(* normalisation (a negative index counts from the end, an index past the  *)
(* end is cut to the length).                                              *)
(***************************************************************************)
EXTENDS Integers, Sequences, FiniteSets, Bags, TLC

\* ------------------------------------------------------------------ bounds
\* Longest enumerated text, largest chunk_size and overlap of the chunker runs.
MaxLen == 6
MaxChunkSize == 5
MaxOverlap == 5
\* chunk_text's list is unbounded in a run that never ends; the model remembers
\* this many windows and drops the later ones (the loop itself goes on).
MaxChunks == 8
\* The same three for the runs that follow the loop to its end or for ever.
LoopMaxLen == 4
LoopMaxChunkSize == 3
LoopMaxOverlap == 3
\* The calls of ingest_file that fail do so at their first .. MaxFaultAt-th
\* embedding or upsert; a directory holds at most MaxDirFiles files.
MaxFaultAt == 2
MaxDirFiles == 2
\* The largest k of fact_pack(query, k).
MaxK == 2
\* The largest collection fact_pack is called on.
MaxQueried == 1
\* run_agent is called with max_steps up to MaxSteps.
MaxSteps == 5

\* ------------------------------------------------------- program constants
\* "Look for sentence endings within the last 100 characters"
SearchBack == 100
\* chunk_text's defaults: chunk_size = 1000, overlap = 200
DefaultChunkSize == 1000
DefaultOverlap == 200
\* The length of the text of the spec's chunking scenario.
ScenarioLen == 2500

VARIABLES
    \* --- one call of DocumentProcessor.chunk_text
    text,        \* the argument text
    chunk_size,  \* the argument chunk_size
    overlap,     \* the argument overlap
    start,       \* the local start
    chunks,      \* the local chunks (the list returned)
    covered,     \* history: the character indices of text inside a cut window
    odd,         \* history: whether the loop has made an odd number of passes
    cpc,         \* "call" | "loop" | "done": where the call stands
    \* --- the persistent collection and the calls made on it
    col,         \* the collection "book": a bag of entries
    last,        \* the last call: its arguments, how it ended, what it returned
    \* --- one call of run_agent
    max_steps,   \* the argument max_steps
    step,        \* the loop variable step: the passes made so far
    trace,       \* the local trace
    context,     \* the local context, as far as the loop changes it
    result,      \* the final result returned with the trace
    apc          \* "idle" | "call" | "loop" | "done": where the call stands

chunkVars == <<text, chunk_size, overlap, start, chunks, covered, odd, cpc>>
storeVars == <<col, last>>
agentVars == <<max_steps, step, trace, context, result, apc>>
vars == <<text, chunk_size, overlap, start, chunks, covered, odd, cpc, col, last,
          max_steps, step, trace, context, result, apc>>

\* ------------------------------------------------------------ Python text
Max(S) == CHOOSE x \in S : \A y \in S : y <= x
Min(S) == CHOOSE x \in S : \A y \in S : x <= y

\* str.strip() with no argument strips these (the ones the model's texts use).
Whitespace == {" ", "\n", "\t"}

\* A slice or rfind bound i normalised against a length n, as CPython does.
PyIndex(i, n) ==
    IF i < 0 THEN (IF i + n < 0 THEN 0 ELSE i + n)
             ELSE (IF i > n THEN n ELSE i)

\* s[lo:hi]
Slice(s, lo, hi) ==
    LET a == PyIndex(lo, Len(s))
        b == PyIndex(hi, Len(s))
    IN  IF a >= b THEN <<>> ELSE SubSeq(s, a + 1, b)

\* The 0-based indices s[lo:hi] takes from s.
SliceIndices(s, lo, hi) ==
    LET a == PyIndex(lo, Len(s))
        b == PyIndex(hi, Len(s))
    IN  {i \in 0..(Len(s) - 1) : a <= i /\ i < b}

\* s.rfind(sub, lo, hi): the highest index where sub lies inside s[lo:hi], or -1.
RFind(s, sub, lo, hi) ==
    LET a == PyIndex(lo, Len(s))
        b == PyIndex(hi, Len(s))
        m == Len(sub)
        hits == {i \in a..(b - m) : \A j \in 1..m : s[i + j] = sub[j]}
    IN  IF hits = {} THEN -1 ELSE Max(hits)

\* s.strip()
Strip(s) ==
    LET keep == {i \in 1..Len(s) : s[i] \notin Whitespace}
    IN  IF keep = {} THEN <<>> ELSE SubSeq(s, Min(keep), Max(keep))

\* ------------------------------------------------------------- chunk_text
\* Lines 156-163: the end snapped to the last period, else to the last
\* paragraph break, found after search_start.
SnapEnd(raw, search_start, sentence_end, para_end) ==
    IF sentence_end > search_start THEN sentence_end + 1
    ELSE IF para_end > search_start THEN para_end + 2
    ELSE raw

\* Lines 153-163, end being start + chunk_size.
BoundaryEnd(s, raw, search_start) ==
    IF raw < Len(s)
    THEN SnapEnd(raw, search_start,
                 RFind(s, <<".">>, search_start, raw),
                 RFind(s, <<"\n", "\n">>, search_start, raw))
    ELSE raw

\* Lines 150-163: the end of the window that starts at st.
WindowEnd(s, size, st) ==
    BoundaryEnd(s, st + size,
                IF st + size - SearchBack > st THEN st + size - SearchBack ELSE st)

\* Line 169 with a window that skips one character (the mutant of NextStart).
NextStartSkipping(end, ov) == end - ov + 1

\* Line 169: start = end - overlap
NextStart(end, ov) == end - ov

\* chunks.append(chunk), as far as the model remembers the list.
Remember(list, chunk) ==
    IF Len(list) < MaxChunks THEN Append(list, chunk) ELSE list

\* Lines 165-167 without the "if chunk:" test (the mutant of Collect).
CollectAlways(list, chunk) == Remember(list, chunk)

\* Lines 165-167: the trimmed window is kept unless it is empty.
Collect(list, chunk) == IF chunk # <<>> THEN Remember(list, chunk) ELSE list

\* Lines 143-147: the call either returns [text] at once or enters the loop.
ChunkTextCall ==
    /\ cpc = "call"
    /\ IF Len(text) <= chunk_size
       THEN /\ chunks' = <<text>>
            /\ covered' = 0..(Len(text) - 1)
            /\ cpc' = "done"
       ELSE /\ chunks' = <<>>
            /\ covered' = {}
            /\ cpc' = "loop"
    /\ start' = 0
    /\ odd' = FALSE
    /\ UNCHANGED <<text, chunk_size, overlap>>
    /\ UNCHANGED <<storeVars, agentVars>>

\* Lines 165-169: the window [st, end) is trimmed and collected, and the next
\* start set.
CutWindow(s, ov, st, list, end) ==
    [end |-> end,
     chunks |-> Collect(list, Strip(Slice(s, st, end))),
     next |-> NextStart(end, ov)]

\* Lines 150-169: one pass of the loop body from start st.
WindowPass(s, size, ov, st, list) ==
    CutWindow(s, ov, st, list, WindowEnd(s, size, st))

\* Lines 149-171: one pass of the while loop (entered with start < len(text)),
\* end and chunk being the pass's local variables.
ChunkTextIter ==
    /\ cpc = "loop"
    /\ \E end \in {WindowEnd(text, chunk_size, start)} :
         \E chunk \in {Strip(Slice(text, start, end))} :
            /\ chunks' = Collect(chunks, chunk)
            /\ covered' = covered \cup SliceIndices(text, start, end)
            /\ start' = NextStart(end, overlap)
            /\ cpc' = IF NextStart(end, overlap) >= Len(text) THEN "done" ELSE "loop"
    /\ odd' = ~odd
    /\ UNCHANGED <<text, chunk_size, overlap>>
    /\ UNCHANGED <<storeVars, agentVars>>

\* chunk_text as its callers see it: the list it returns, or loops = TRUE when
\* the loop comes back to a start it has had (the call then never returns).
RECURSIVE ChunkLoop(_, _, _, _, _, _)
RECURSIVE ChunkLoopNext(_, _, _, _, _)
ChunkLoop(s, size, ov, st, list, seen) ==
    IF st \in seen THEN [loops |-> TRUE, chunks |-> list]
    ELSE ChunkLoopNext(s, size, ov, WindowPass(s, size, ov, st, list), seen \cup {st})

ChunkLoopNext(s, size, ov, pass, seen) ==
    IF pass.next >= Len(s) THEN [loops |-> FALSE, chunks |-> pass.chunks]
    ELSE ChunkLoop(s, size, ov, pass.next, pass.chunks, seen)

ChunkText(s, size, ov) ==
    IF Len(s) <= size THEN [loops |-> FALSE, chunks |-> <<s>>]
    ELSE ChunkLoop(s, size, ov, 0, <<>>, {})

\* ------------------------------------------------------------- formatting
DigitChars == <<"0", "1", "2", "3", "4", "5", "6", "7", "8", "9">>

\* str(n) for n >= 0, as the f-strings of ingest_file format page and index.
RECURSIVE Digits(_)
Digits(n) ==
    IF n < 10 THEN <<DigitChars[n + 1]>>
    ELSE Digits(n \div 10) \o <<DigitChars[(n % 10) + 1]>>

LowerTable == [P |-> "p", D |-> "d", F |-> "f", T |-> "t", X |-> "x", M |-> "m"]

\* str.lower()
Lower(s) == [i \in 1..Len(s) |->
                IF s[i] \in DOMAIN LowerTable THEN LowerTable[s[i]] ELSE s[i]]

\* Path.suffix of a file name: from its last "." on, unless the name starts or
\* ends with that ".".
Suffix(name) ==
    LET i == RFind(name, <<".">>, 0, Len(name))
    IN  IF 0 < i /\ i < Len(name) - 1 THEN Slice(name, i, Len(name)) ELSE <<>>

\* ------------------------------------------------------ DocumentProcessor
\* A file: its name, whether the path exists, and its pages (the paragraphs of
\* a DOCX, the one text of a TXT or MD).  primary and fallback say whether
\* the first and the second extraction of that page work (for DOCX, TXT and
\* MD, primary says whether the file can be read).
SuffixPdf == <<".", "p", "d", "f">>
SuffixDocx == <<".", "d", "o", "c", "x">>
SuffixTxt == <<".", "t", "x", "t">>
SuffixMd == <<".", "m", "d">>
supported_formats == {SuffixPdf, SuffixDocx, SuffixTxt, SuffixMd}

DocChunk(t, page, source, type) ==
    [text |-> t, page |-> page, source |-> source, type |-> type]

\* The per-page loop of either PDF extraction: the pages 1..n whose text is
\* not blank, trimmed, with their 1-based page numbers.
RECURSIVE PdfPages(_, _)
PdfPages(file, n) ==
    IF n = 0 THEN <<>>
    ELSE LET t == Strip(file.pages[n].text)
         IN  IF t # <<>>
             THEN Append(PdfPages(file, n - 1), DocChunk(t, n, file.name, "pdf"))
             ELSE PdfPages(file, n - 1)

\* Either strategy skipping the pages it cannot extract instead of giving the
\* file up (the mutant of extract_text_from_pdf).
RECURSIVE PdfPagesExtracted(_, _)
PdfPagesExtracted(file, n) ==
    IF n = 0 THEN <<>>
    ELSE IF file.pages[n].fallback /\ Strip(file.pages[n].text) # <<>>
    THEN Append(PdfPagesExtracted(file, n - 1),
                DocChunk(Strip(file.pages[n].text), n, file.name, "pdf"))
    ELSE PdfPagesExtracted(file, n - 1)

ExtractPdfSkippingPages(file) == PdfPagesExtracted(file, Len(file.pages))

\* Lines 21-67: the first strategy gives the pages unless one of them raises;
\* then the second strategy does, unless one of them raises there too.
extract_text_from_pdf(file) ==
    IF \A i \in 1..Len(file.pages) : file.pages[i].primary
    THEN PdfPages(file, Len(file.pages))
    ELSE IF \A i \in 1..Len(file.pages) : file.pages[i].fallback
         THEN PdfPages(file, Len(file.pages))
         ELSE <<>>

\* '\n\n'.join(parts) of the non-blank paragraphs 1..n, each trimmed.
RECURSIVE JoinParagraphs(_, _)
JoinParagraphs(file, n) ==
    IF n = 0 THEN <<>>
    ELSE LET t == Strip(file.pages[n].text)
             before == JoinParagraphs(file, n - 1)
         IN  IF t = <<>> THEN before
             ELSE IF before = <<>> THEN t
             ELSE before \o <<"\n", "\n">> \o t

extract_text_from_docx(file) ==
    IF \A i \in 1..Len(file.pages) : file.pages[i].primary
    THEN <<DocChunk(JoinParagraphs(file, Len(file.pages)), 1, file.name, "docx")>>
    ELSE <<>>

extract_text_from_txt(file) ==
    IF Len(file.pages) = 1 /\ file.pages[1].primary
    THEN <<DocChunk(file.pages[1].text, 1, file.name, "txt")>>
    ELSE <<>>

extract_text_from_markdown(file) ==
    IF Len(file.pages) = 1 /\ file.pages[1].primary
    THEN <<DocChunk(file.pages[1].text, 1, file.name, "markdown")>>
    ELSE <<>>

process_document(file) ==
    LET suffix == Lower(Suffix(file.name))
    IN  IF ~file.exists THEN <<>>
        ELSE IF suffix = SuffixPdf THEN extract_text_from_pdf(file)
        ELSE IF suffix = SuffixDocx THEN extract_text_from_docx(file)
        ELSE IF suffix = SuffixTxt THEN extract_text_from_txt(file)
        ELSE IF suffix = SuffixMd THEN extract_text_from_markdown(file)
        ELSE <<>>

\* ------------------------------------------------------- the collection
\* ingest.py's embedder: SentenceTransformer("all-mpnet-base-v2"), a function
\* of the text alone.
IngestModel == "all-mpnet-base-v2"
Encode(model, chunk) == [model |-> model, of |-> chunk]

\* Line 51 leaving the page out of the id (the mutant of ChunkId).
ChunkIdNoPage(source, page, i) == source \o <<"_">> \o Digits(i)

\* Lines 51-62: the id and the metadata of window i of a document chunk.
ChunkId(source, page, i) == source \o <<"_">> \o Digits(page) \o <<"_">> \o Digits(i)

Metadata(dc, i) ==
    [source |-> dc.source,
     filename |-> dc.source,
     page |-> dc.page,
     chunk_index |-> i,
     type |-> dc.type,
     title |-> dc.source \o <<" ", "-", " ", "P", "a", "g", "e", " ">> \o Digits(dc.page),
     citeKey |-> dc.source \o <<"_", "p">> \o Digits(dc.page) \o <<"_">> \o Digits(i)]

Entry(dc, i, window) ==
    [id |-> ChunkId(dc.source, dc.page, i),
     document |-> window,
     embedding |-> Encode(IngestModel, window),
     metadata |-> Metadata(dc, i)]

Ids(c) == {e.id : e \in BagToSet(c)}
WithoutId(c, id) == [e \in {x \in BagToSet(c) : x.id # id} |-> c[e]]

\* col.upsert deleting the entries of the same source and page that have a
\* higher chunk index (a mutant of Upsert).
UpsertTruncating(c, e) ==
    [x \in {y \in BagToSet(c) :
               /\ y.id # e.id
               /\ ~(/\ y.metadata.source = e.metadata.source
                    /\ y.metadata.page = e.metadata.page
                    /\ y.metadata.chunk_index > e.metadata.chunk_index)} |-> c[x]]
    (+) SetToBag({e})

\* The entry is added whether or not its id is stored (the mutant of Upsert).
InsertAlways(c, e) == c (+) SetToBag({e})

\* Lines 65-70, col.upsert: the entry replaces the one stored under its id.
Upsert(c, e) == WithoutId(c, e.id) (+) SetToBag({e})

\* ------------------------------------------------------------ ingest_file
\* Lines 43-72 counting a window before the blank test (the mutant of
\* IngestWindow).
IngestWindowCountingBlank(acc, dc, i, window, failAt) ==
    IF Strip(window) = <<>> THEN [acc EXCEPT !.total = @ + 1]
    ELSE IF acc.upserts + 1 = failAt THEN [acc EXCEPT !.outcome = "raise"]
    ELSE [acc EXCEPT !.col = Upsert(@, Entry(dc, i, window)),
                     !.upserts = @ + 1,
                     !.total = @ + 1]

\* Lines 43-72 taking the file's entries out of the store when the embedding
\* or the upsert raises (a mutant of IngestWindow).
IngestWindowRollingBack(acc, dc, i, window, failAt) ==
    IF Strip(window) = <<>> THEN acc
    ELSE IF acc.upserts + 1 = failAt
    THEN [acc EXCEPT !.outcome = "raise",
                     !.col = [x \in {y \in BagToSet(@) : y.metadata.source # dc.source}
                                 |-> @[x]]]
    ELSE [acc EXCEPT !.col = Upsert(@, Entry(dc, i, window)),
                     !.upserts = @ + 1,
                     !.total = @ + 1]

\* Lines 43-72: one pass of the inner loop.  The failAt-th embedding or upsert
\* of the call raises (none when failAt = 0); a raise leaves the loop.
IngestWindow(acc, dc, i, window, failAt) ==
    IF Strip(window) = <<>> THEN acc
    ELSE IF acc.upserts + 1 = failAt THEN [acc EXCEPT !.outcome = "raise"]
    ELSE [acc EXCEPT !.col = Upsert(@, Entry(dc, i, window)),
                     !.upserts = @ + 1,
                     !.total = @ + 1]

RECURSIVE IngestWindows(_, _, _, _, _)
IngestWindows(acc, dc, windows, i, failAt) ==
    IF i >= Len(windows) \/ acc.outcome # "return" THEN acc
    ELSE IngestWindows(IngestWindow(acc, dc, i, windows[i + 1], failAt),
                       dc, windows, i + 1, failAt)

\* Lines 34-72: the outer loop from document chunk k on.  A chunk_text that
\* never returns leaves the call hanging.
IngestDocChunk(acc, dc, text_chunks, failAt) ==
    IF text_chunks.loops THEN [acc EXCEPT !.outcome = "hang"]
    ELSE IngestWindows(acc, dc, text_chunks.chunks, 0, failAt)

RECURSIVE IngestDocChunks(_, _, _, _, _, _)
IngestDocChunks(acc, dcs, k, size, ov, failAt) ==
    IF k > Len(dcs) \/ acc.outcome # "return" THEN acc
    ELSE IngestDocChunks(
             IngestDocChunk(acc, dcs[k], ChunkText(dcs[k].text, size, ov), failAt),
             dcs, k + 1, size, ov, failAt)

\* ingest_file(file_path, chunk_size, overlap) on collection c: the collection
\* it leaves, how it ends ("return" | "raise" | "hang"), the count it returns
\* and the number of upserts it made.
IngestFileResult(acc) ==
    [col |-> acc.col, outcome |-> acc.outcome,
     ret |-> IF acc.outcome = "return" THEN acc.total ELSE 0,
     upserts |-> acc.upserts]

IngestChunks(c, document_chunks, size, ov, failAt) ==
    IF document_chunks = <<>>
    THEN [col |-> c, outcome |-> "return", ret |-> 0, upserts |-> 0]
    ELSE IngestFileResult(
             IngestDocChunks(
                 [col |-> c, total |-> 0, upserts |-> 0, outcome |-> "return"],
                 document_chunks, 1, size, ov, failAt))

ingest_file(c, file, size, ov, failAt) ==
    IngestChunks(c, process_document(file), size, ov, failAt)

\* ------------------------------------------------------- ingest_directory
\* A directory: whether it exists and the paths rglob("*") lists, in order
\* (a listed path that is no file is a directory).
SupportedFiles(dir) ==
    SelectSeq(dir.files,
              LAMBDA f : f.exists /\ Lower(Suffix(f.name)) \in supported_formats)

FileResult(r) == [outcome |-> r.outcome, ret |-> r.ret, upserts |-> r.upserts]

\* Lines 94-98 without the try (the mutant of DirStep): the raise leaves
\* ingest_directory.
DirStepNoCatch(acc, r) ==
    [acc EXCEPT !.col = r.col,
                !.total = IF r.outcome = "return" THEN @ + r.ret ELSE @,
                !.perFile = Append(@, FileResult(r)),
                !.outcome = r.outcome]

\* Lines 94-98: the count of a file that returns is added; a raise is logged.
DirStep(acc, r) ==
    [acc EXCEPT !.col = r.col,
                !.total = IF r.outcome = "return" THEN @ + r.ret ELSE @,
                !.perFile = Append(@, FileResult(r)),
                !.outcome = IF r.outcome = "hang" THEN "hang" ELSE "return"]

RECURSIVE DirLoop(_, _, _, _, _, _)
DirLoop(acc, files, k, size, ov, faults) ==
    IF k > Len(files) \/ acc.outcome # "return" THEN acc
    ELSE DirLoop(DirStep(acc, ingest_file(acc.col, files[k], size, ov, faults[k])),
                 files, k + 1, size, ov, faults)

IngestDirectoryResult(acc) ==
    [col |-> acc.col, outcome |-> acc.outcome,
     ret |-> IF acc.outcome = "return" THEN acc.total ELSE 0,
     perFile |-> acc.perFile]

ingest_directory(c, dir, size, ov, faults) ==
    IF ~dir.exists
    THEN [col |-> c, outcome |-> "return", ret |-> 0, perFile |-> <<>>]
    ELSE IngestDirectoryResult(
             DirLoop([col |-> c, total |-> 0, perFile |-> <<>>, outcome |-> "return"],
                     SupportedFiles(dir), 1, size, ov, faults))

\* ------------------------------------- clear_collection, get_collection_stats
\* col.delete(ids = ...) deleting nothing (the mutant of DeleteIds).
DeleteNothing(c, ids) == c

\* Line 108, col.delete(ids = results['ids'])
DeleteIds(c, ids) == [e \in {x \in BagToSet(c) : x.id \notin ids} |-> c[e]]

\* clear_collection() when the store's calls work, and when col.get() or
\* col.delete() raises (fault = "get" | "delete"): the raise is logged.
clear_collection(c, fault) ==
    IF fault = "get" THEN c
    ELSE IF Ids(c) = {} THEN c
    ELSE IF fault = "delete" THEN c
    ELSE DeleteIds(c, Ids(c))

\* Python's None (no text of the model holds a string of several characters).
None == <<"None">>
\* The None in place of a dict: the metadata of an entry stored without any.
NoMetadata == [none |-> TRUE]

\* Lines 112-113 raising the error again (the mutant of OnClearError).
OnClearErrorRaise == [outcome |-> "raise", value |-> None]

\* Lines 112-113: the error is logged, and the call ends as every call of
\* clear_collection does, returning None.
OnClearError == [outcome |-> "return", value |-> None]

\* How clear_collection() ends: col.delete() is called, and can fail, only
\* when there are ids.
ClearResult(c, fault) ==
    IF fault = "get" \/ (fault = "delete" /\ Ids(c) # {}) THEN OnClearError
    ELSE [outcome |-> "return", value |-> None]

\* dict.get(key, default)
Get(dict, key, default) == IF key \in DOMAIN dict THEN dict[key] ELSE default

\* Lines 122-125 leaving out the entries that have no source (the mutant of
\* SourceCounts).
SourceCountsOfSourced(c) ==
    [s \in {e.metadata.source : e \in {x \in BagToSet(c) : "source" \in DOMAIN x.metadata}} |->
        BagCardinality([e \in {x \in BagToSet(c) :
                                  "source" \in DOMAIN x.metadata /\ x.metadata.source = s}
                           |-> c[e]])]

\* Lines 122-125: entries per metadata source, 'unknown' for an entry that
\* has none.
SourceCounts(c) ==
    [s \in {Get(e.metadata, "source", <<"unknown">>) : e \in BagToSet(c)} |->
        BagCardinality([e \in {x \in BagToSet(c) :
                                  Get(x.metadata, "source", <<"unknown">>) = s} |-> c[e]])]

\* Lines 117-136: the envelope returned, col.get() working or raising.  An
\* entry stored without metadata has None for one, and line 124 raises on it.
get_collection_stats(c, fault) ==
    IF fault = "get" \/ \E e \in BagToSet(c) : e.metadata = NoMetadata
    THEN [error |-> "raised", status |-> "error"]
    ELSE [total_documents |-> BagCardinality(c), sources |-> SourceCounts(c),
          status |-> "success"]

\* retrieve_backup.py's function of the same name (lines 54-67): the envelope
\* returned, col.count() working or raising.
retrieve_get_collection_stats(c, fault) ==
    IF fault = "count"
    THEN [error |-> "col.count() raised", status |-> "error"]
    ELSE [document_count |-> BagCardinality(c), collection_name |-> "book",
          status |-> "active"]

\* -------------------------------------------------------------- fact_pack
\* a or b choosing b only for a None a (the mutant of Or).
OrIsNone(a, b) == IF a # None THEN a ELSE b

\* a or b, for strings and None
Or(a, b) == IF a # None /\ a # <<>> THEN a ELSE b

\* retrieve_backup.py hands col.query the query's text, which the collection
\* embeds with its own embedding function: the store's default model, not the
\* model ingest.py encodes with.
QueryModel == "all-MiniLM-L6-v2"
Dimension(model) == IF model = IngestModel THEN 768 ELSE 384

\* The sequences of m distinct elements of S.
RECURSIVE Arrangements(_, _)
Arrangements(S, m) ==
    IF m = 0 THEN {<<>>}
    ELSE UNION {{Append(h, e) : e \in S \ {h[i] : i \in 1..Len(h)}} :
                   h \in Arrangements(S, m - 1)}

\* The distances the store reports, in thousandths.
Distances == {0, 333, 904, 1500}

\* The non-decreasing sequences of m distances.
RECURSIVE Ascending(_)
Ascending(m) ==
    IF m = 0 THEN {<<>>}
    ELSE UNION {{Append(d, x) : x \in {y \in Distances : d = <<>> \/ d[Len(d)] <= y}} :
                   d \in Ascending(m - 1)}

QueryResult(hits, dists) ==
    [raised |-> FALSE,
     documents |-> <<[i \in 1..Len(hits) |-> hits[i].document]>>,
     metadatas |-> <<[i \in 1..Len(hits) |-> hits[i].metadata]>>,
     distances |-> <<dists>>]

QueryRaised == [raised |-> TRUE, documents |-> <<>>, metadatas |-> <<>>,
                distances |-> <<>>]

\* The hits of col.query(query_texts = [query], n_results = k) on collection c:
\* the min(k, size) nearest entries, nearest first.
QueryHits(c, m) ==
    {QueryResult(h, d) : h \in Arrangements(BagToSet(c), m), d \in Ascending(m)}

\* What col.query can answer.  It may raise whatever the collection holds (the
\* store or its embedding function fails), and it raises for k < 1.  What the
\* store does with a query vector of another dimension than its entries' is
\* left open: it answers or raises.
QueryResults(c, k) ==
    {QueryRaised} \cup
    IF k >= 1
    THEN QueryHits(c, IF k < Cardinality(BagToSet(c)) THEN k
                      ELSE Cardinality(BagToSet(c)))
    ELSE {}

\* Line 41 cutting the third decimal off (the mutant of Round2).
Truncate2(x) == (x \div 10) * 10

\* round(x, 2) of a number of thousandths that ends in no 5.
Round2(x) == ((x + 5) \div 10) * 10

\* Line 24 without the floor (the mutant of Confidence).
ConfidenceNoFloor(distance) == 1000 - distance

\* Line 24: max(0.1, 1.0 - distance), in thousandths.
Confidence(distance) == IF 1000 - distance > 100 THEN 1000 - distance ELSE 100

\* Lines 22-42: the item of hit number i (from 0).
FactPackItem(i, doc, meta, distance) ==
    [text |-> doc,
     citeKey |-> Or(Get(meta, "citeKey", None),
                    Get(meta, "source", <<"s", "o", "u", "r", "c", "e", "_">> \o Digits(i))),
     source |-> [title |-> Or(Get(meta, "title", None),
                              Get(meta, "source", <<"Unknown Source">>)),
                 url |-> Get(meta, "url", None),
                 page |-> Get(meta, "page", None),
                 filename |-> Get(meta, "filename", None)],
     confidence |-> Round2(Confidence(distance))]

\* Lines 17-19: res[key][0] if res[key] else []
FirstOf(lists) == IF lists # <<>> THEN lists[1] ELSE <<>>

\* zip(docs, metas, distances) stops at the shortest.
ZipLen(docs, metas, distances) ==
    Min({Len(docs), Len(metas), Len(distances)})

\* Lines 21-42 answering the hits last first (the mutant of FactPackItems).
FactPackItemsReversed(docs, metas, distances) ==
    [i \in 1..ZipLen(docs, metas, distances) |->
        FactPackItem(ZipLen(docs, metas, distances) - i,
                     docs[ZipLen(docs, metas, distances) + 1 - i],
                     metas[ZipLen(docs, metas, distances) + 1 - i],
                     distances[ZipLen(docs, metas, distances) + 1 - i])]

FactPackItems(docs, metas, distances) ==
    [i \in 1..ZipLen(docs, metas, distances) |->
        FactPackItem(i - 1, docs[i], metas[i], distances[i])]

\* Lines 45-47 answering a made-up item (a mutant of OnQueryError).
OnQueryErrorFabricate ==
    [outcome |-> "return", items |-> <<FactPackItem(0, <<>>, [page |-> 1], 0)>>]

\* Lines 45-47 raising the error again (the mutant of OnQueryError).
OnQueryErrorRaise == [outcome |-> "raise", items |-> <<>>]

\* Lines 45-47: the error is printed and [] returned.
OnQueryError == [outcome |-> "return", items |-> <<>>]

\* Line 27: meta.get raises on the None the store answers for an entry that
\* has no metadata; the error is one more that lines 45-47 catch.
ItemRaises(docs, metas, distances) ==
    \E i \in 1..ZipLen(docs, metas, distances) : metas[i] = NoMetadata

FactPackLoop(docs, metas, distances) ==
    IF ItemRaises(docs, metas, distances) THEN OnQueryError
    ELSE [outcome |-> "return", items |-> FactPackItems(docs, metas, distances)]

\* fact_pack(query, k), given what col.query answers.
fact_pack(res) ==
    IF res.raised THEN OnQueryError
    ELSE FactPackLoop(FirstOf(res.documents), FirstOf(res.metadatas),
                      FirstOf(res.distances))

\* ------------------------------------------------------ the calls' inputs
Page(t) == [text |-> t, primary |-> TRUE, fallback |-> TRUE]
PageFallback(t) == [text |-> t, primary |-> FALSE, fallback |-> TRUE]
PageBroken(t) == [text |-> t, primary |-> FALSE, fallback |-> FALSE]

NameATxt == <<"a", ".", "t", "x", "t">>
NameBPdf == <<"b", ".", "P", "D", "F">>
NameCCsv == <<"c", ".", "c", "s", "v">>

File(name, pages) == [name |-> name, exists |-> TRUE, pages |-> pages]
NoFile == [name |-> <<>>, exists |-> FALSE, pages |-> <<>>]

TxtLong == File(NameATxt, <<Page(<<"a", "a", ".", "a", "a">>)>>)
TxtShort == File(NameATxt, <<Page(<<"a", ".", "a">>)>>)
TxtBlank == File(NameATxt, <<Page(<<"\n">>)>>)
PdfGood == File(NameBPdf, <<Page(<<"a", ".", "a", "\n">>), Page(<<"\n">>),
                             Page(<<"a", "a", "a", "a">>)>>)
PdfFallback == File(NameBPdf, <<Page(<<"a", ".", "a", "\n">>), PageFallback(<<"a", "a">>),
                                 Page(<<"a", "a", "a", "a">>)>>)
PdfCorrupt == File(NameBPdf, <<Page(<<"a", ".", "a", "\n">>), PageBroken(<<"a", "a">>),
                                Page(<<"a", "a", "a", "a">>)>>)
CsvFile == File(NameCCsv, <<Page(<<"a", "a">>)>>)
NameDDocx == <<"d", ".", "d", "o", "c", "x">>
NameEMd == <<"e", ".", "m", "d">>
\* Files that exist and cannot be read (a DOCX that is no archive, a TXT and
\* an MD that are not UTF-8).
DocxUnreadable == File(NameDDocx, <<PageBroken(<<"a">>), Page(<<"a">>)>>)
TxtUnreadable == File(NameATxt, <<PageBroken(<<"a", "a">>)>>)
MdUnreadable == File(NameEMd, <<PageBroken(<<"a", "a">>)>>)
UnreadableFiles == {DocxUnreadable, TxtUnreadable, MdUnreadable}
Missing == [name |-> NameATxt, exists |-> FALSE, pages |-> <<>>]

Files == {TxtLong, TxtShort, TxtBlank, PdfGood, PdfFallback, PdfCorrupt, CsvFile, Missing}

Directories ==
    {d \in {[exists |-> TRUE, files |-> <<TxtLong, CsvFile, PdfGood>>],
            [exists |-> TRUE, files |-> <<PdfCorrupt, TxtShort, Missing>>],
            [exists |-> TRUE, files |-> <<TxtBlank, PdfFallback>>],
            [exists |-> TRUE, files |-> <<TxtLong, PdfGood>>],
            [exists |-> FALSE, files |-> <<>>]} :
        Len(d.files) <= MaxDirFiles}

\* (chunk_size, overlap) of the ingest calls: a small pair, the defaults, and
\* a pair with overlap = chunk_size.
SmallParams == [size |-> 3, ov |-> 1]
DefaultParams == [size |-> DefaultChunkSize, ov |-> DefaultOverlap]
EqualParams == [size |-> 2, ov |-> 2]

\* The calls of ingest_file: every file with the small pair, working or with
\* its failAt-th embedding or upsert raising; every file with the defaults;
\* three files with overlap = chunk_size; the unreadable files with a store
\* whose first upsert would raise.
IngestFileCalls ==
    {[file |-> f, p |-> SmallParams, failAt |-> k] : f \in Files, k \in 0..MaxFaultAt}
    \cup {[file |-> f, p |-> DefaultParams, failAt |-> 0] : f \in Files}
    \cup {[file |-> f, p |-> EqualParams, failAt |-> 0] : f \in {TxtLong, TxtBlank, PdfGood}}
    \cup {[file |-> f, p |-> SmallParams, failAt |-> 1] : f \in UnreadableFiles}

\* The calls of ingest_directory: faults[k] is the failAt of the k-th supported
\* file.
IngestDirectoryCalls ==
    UNION {{[dir |-> d, p |-> SmallParams, faults |-> fs] :
               fs \in [(1..Len(d.files)) -> {0, MaxFaultAt}]} : d \in Directories}
    \cup {[dir |-> d, p |-> q, faults |-> [k \in 1..Len(d.files) |-> 0]] :
            d \in Directories, q \in {DefaultParams, EqualParams}}

\* ------------------------------------------------------------- the calls
NoCall ==
    [op |-> "none", outcome |-> "return", ret |-> 0, upserts |-> 0,
     file |-> NoFile, size |-> 0, ov |-> 0, perFile |-> <<>>,
     fault |-> "none", cleared |-> 0, stats |-> [status |-> "none"],
     k |-> 0, items |-> <<>>, empty |-> FALSE, supported |-> 0,
     res |-> QueryRaised, embedder |-> "none", files |-> <<>>,
     value |-> None,
     after |-> "none"]

\* What the call before this one was, as far as the later call's result
\* depends on it.
After(prev, op, file, size, ov) ==
    IF /\ op = "ingest_file" /\ prev.op = "ingest_file"
       /\ prev.outcome = "return"
       /\ prev.file = file /\ prev.size = size /\ prev.ov = ov
    THEN "same_ingest_file"
    ELSE IF prev.op = "clear_collection" /\ prev.fault = "none"
    THEN IF prev.cleared > 0 THEN "cleared" ELSE "cleared_empty"
    ELSE "other"

IngestFileDone(call, r) ==
    /\ col' = r.col
    /\ last' = [NoCall EXCEPT
                  !.op = "ingest_file", !.outcome = r.outcome,
                  !.ret = r.ret, !.upserts = r.upserts,
                  !.file = call.file, !.size = call.p.size, !.ov = call.p.ov,
                  !.after = After(last, "ingest_file", call.file,
                                  call.p.size, call.p.ov)]

IngestFile ==
    \E call \in IngestFileCalls :
        \E r \in {ingest_file(col, call.file, call.p.size, call.p.ov, call.failAt)} :
            /\ IngestFileDone(call, r)
            /\ UNCHANGED <<chunkVars, agentVars>>

IngestDirectoryDone(call, r) ==
    /\ col' = r.col
    /\ last' = [NoCall EXCEPT
                  !.op = "ingest_directory", !.outcome = r.outcome,
                  !.ret = r.ret, !.perFile = r.perFile,
                  !.supported = Len(SupportedFiles(call.dir)),
                  !.files = SupportedFiles(call.dir),
                  !.size = call.p.size, !.ov = call.p.ov,
                  !.after = After(last, "ingest_directory", NoFile,
                                  call.p.size, call.p.ov)]

IngestDirectory ==
    \E call \in IngestDirectoryCalls :
        \E r \in {ingest_directory(col, call.dir, call.p.size, call.p.ov,
                                   call.faults)} :
            /\ IngestDirectoryDone(call, r)
            /\ UNCHANGED <<chunkVars, agentVars>>

ClearCollection ==
    \E fault \in {"none", "get", "delete"} :
        /\ col' = clear_collection(col, fault)
        /\ last' = [NoCall EXCEPT
                      !.op = "clear_collection", !.fault = fault,
                      !.outcome = ClearResult(col, fault).outcome,
                      !.value = ClearResult(col, fault).value,
                      !.cleared = BagCardinality(col) - BagCardinality(col'),
                      !.after = After(last, "clear_collection", NoFile, 0, 0)]
        /\ UNCHANGED <<chunkVars, agentVars>>

GetCollectionStats ==
    \E fault \in {"none", "get"} :
        /\ last' = [NoCall EXCEPT
                      !.op = "get_collection_stats", !.fault = fault,
                      !.stats = get_collection_stats(col, fault),
                      !.after = After(last, "get_collection_stats", NoFile, 0, 0)]
        /\ UNCHANGED col
        /\ UNCHANGED <<chunkVars, agentVars>>

RetrieveCollectionStats ==
    \E fault \in {"none", "count"} :
        /\ last' = [NoCall EXCEPT
                      !.op = "retrieve.get_collection_stats", !.fault = fault,
                      !.stats = retrieve_get_collection_stats(col, fault),
                      !.after = After(last, "retrieve.get_collection_stats",
                                      NoFile, 0, 0)]
        /\ UNCHANGED col
        /\ UNCHANGED <<chunkVars, agentVars>>

\* -------------------------------------------------------------- run_agent
\* What a pass's try block meets before it records the action: complete_json
\* or the reading of plan_result["tool"] raises, or there is a plan.  The
\* plan's args are a dict without "summary", a dict with it, or no dict (the
\* JSON held null, a list or a string).  execute_tool catches its own errors.
AgentTools == {"finish", "retrieve_facts", "save_chapter"}
ArgKinds == {"dict", "summary", "not_a_dict"}
PlanRaises == [raises |-> TRUE, tool |-> "error", args |-> "dict"]
Plans ==
    {PlanRaises} \cup {[raises |-> FALSE, tool |-> t, args |-> a] : t \in AgentTools, a \in ArgKinds}

NoResult == [text |-> "none", n |-> 0]
MaximumStepsReached == [text |-> "Maximum steps reached", n |-> 0]
\* Line 104: f"Error after {step + 1} steps: {str(e)}"
ErrorAfter(n) == [text |-> "Error after n steps", n |-> n]
\* Line 89: args.get("summary", "Task completed")
FinishResult(args) ==
    [text |-> IF args = "summary" THEN "summary" ELSE "Task completed", n |-> 0]

\* Lines 80-85 and 96-101: the entries appended to the trace.
ActionEntry(st, plan) == [step |-> st + 1, tool |-> plan.tool, error |-> FALSE]
ErrorEntry(st) == [step |-> st + 1, tool |-> "error", error |-> TRUE]

\* Lines 92-93: the tools whose use is tracked.
TrackedTools == {"save_chapter", "build_book", "create_outline", "analyze_rag_content",
                 "generate_content_summary"}
Track(ctx, tool) ==
    IF tool \in TrackedTools
    THEN [ctx EXCEPT !.completed_tasks = Append(@, tool)]
    ELSE ctx

\* Line 103 with the run going on one step longer (the mutant of
\* ErrorEndsRun).
ErrorEndsRunLater(st) == st > 3

\* Line 103: if step > 2
ErrorEndsRun(st) == st > 2

\* Lines 95-104: the except block.
OnStepError(tr, ctx, st) ==
    [trace |-> Append(tr, ErrorEntry(st)), context |-> ctx,
     returns |-> ErrorEndsRun(st),
     result |-> IF ErrorEndsRun(st) THEN ErrorAfter(st + 1) ELSE NoResult]

\* Lines 60-104: one pass of the loop body.  Line 89 is inside the try and
\* after the append of line 80: args.get raises there on args that are no
\* dict.
AgentStep(plan, tr, ctx, st) ==
    IF plan.raises THEN OnStepError(tr, ctx, st)
    ELSE IF plan.tool = "finish"
    THEN IF plan.args = "not_a_dict"
         THEN OnStepError(Append(tr, ActionEntry(st, plan)), ctx, st)
         ELSE [trace |-> Append(tr, ActionEntry(st, plan)), context |-> ctx,
               returns |-> TRUE, result |-> FinishResult(plan.args)]
    ELSE [trace |-> Append(tr, ActionEntry(st, plan)),
          context |-> Track(ctx, plan.tool),
          returns |-> FALSE, result |-> NoResult]

\* No call of run_agent.
NoAgent ==
    /\ max_steps = 0
    /\ step = 0
    /\ trace = <<>>
    /\ context = [completed_tasks |-> <<>>]
    /\ result = NoResult
    /\ apc = "idle"

\* Lines 42-43
RunAgentCall ==
    /\ apc = "call"
    /\ trace' = <<>>
    /\ context' = [completed_tasks |-> <<>>]
    /\ step' = 0
    /\ apc' = "loop"
    /\ UNCHANGED <<max_steps, result>>
    /\ UNCHANGED <<chunkVars, storeVars>>

\* Lines 45-104: one pass of the for loop.
RunAgentPass ==
    /\ apc = "loop"
    /\ step < max_steps
    /\ \E plan \in Plans :
         \E r \in {AgentStep(plan, trace, context, step)} :
            /\ trace' = r.trace
            /\ context' = r.context
            /\ IF r.returns
               THEN result' = r.result /\ apc' = "done" /\ step' = step
               ELSE result' = result /\ apc' = "loop" /\ step' = step + 1
    /\ UNCHANGED max_steps
    /\ UNCHANGED <<chunkVars, storeVars>>

\* Line 106: the loop is over.
RunAgentMaximum ==
    /\ apc = "loop"
    /\ step >= max_steps
    /\ result' = MaximumStepsReached
    /\ apc' = "done"
    /\ UNCHANGED <<max_steps, step, trace, context>>
    /\ UNCHANGED <<chunkVars, storeVars>>

\* ------------------------------------------------------- chunker's inputs
Alphabet == {"a", ".", "\n"}

RECURSIVE TextsOfLen(_)
TextsOfLen(n) ==
    IF n = 0 THEN {<<>>}
    ELSE {Append(t, c) : t \in TextsOfLen(n - 1), c \in Alphabet}

Texts == UNION {TextsOfLen(n) : n \in 0..MaxLen}
LoopTexts == UNION {TextsOfLen(n) : n \in 0..LoopMaxLen}

\* A text of the scenario's length: letters, a period at index dot (none when
\* dot < 0), and tail characters of whitespace at its end.
ScenarioText(dot, tail) ==
    [i \in 1..ScenarioLen |->
        IF i = dot + 1 THEN "."
        ELSE IF i > ScenarioLen - tail THEN "\n" ELSE "a"]

ScenarioDots == {-1, 850, 899, 900, 901, 950, 999, 1650, 1700, 1750, 1799, 2399}
ScenarioTails == {0, 50, 100, 150}

InitChunk ==
    /\ \/ /\ text \in Texts
          /\ chunk_size \in 1..MaxChunkSize
          /\ overlap \in 0..MaxOverlap
       \/ /\ text \in {ScenarioText(d, t) : d \in ScenarioDots, t \in ScenarioTails}
          /\ chunk_size = DefaultChunkSize
          /\ overlap = DefaultOverlap
    /\ start = 0
    /\ chunks = <<>>
    /\ covered = {}
    /\ odd = FALSE
    /\ NoAgent
    /\ cpc = "call"
    /\ col = EmptyBag
    /\ last = NoCall

NextChunk == ChunkTextCall \/ ChunkTextIter

SpecChunk == InitChunk /\ [][NextChunk]_vars

\* The calls whose loop is followed to its end, or for ever.
InitLoop ==
    /\ text \in LoopTexts
    /\ chunk_size \in 1..LoopMaxChunkSize
    /\ overlap \in 0..LoopMaxOverlap
    /\ start = 0
    /\ chunks = <<>>
    /\ covered = {}
    /\ odd = FALSE
    /\ NoAgent
    /\ cpc = "call"
    /\ col = EmptyBag
    /\ last = NoCall

FactPackDone(k, res, r) ==
    /\ last' = [NoCall EXCEPT
                  !.op = "fact_pack", !.outcome = r.outcome,
                  !.fault = IF res.raised THEN "query" ELSE "none",
                  !.k = k, !.items = r.items, !.res = res,
                  !.embedder = QueryModel,
                  !.empty = (BagCardinality(col) = 0),
                  !.after = After(last, "fact_pack", NoFile, 0, 0)]
    /\ UNCHANGED col

\* fact_pack(query, k): the answer of the model's store does not depend on the
\* query's text, any answer being possible for any query.
FactPack ==
    /\ BagCardinality(col) <= MaxQueried
    /\ \E k \in 0..MaxK :
         \E res \in QueryResults(col, k) :
             /\ FactPackDone(k, res, fact_pack(res))
             /\ UNCHANGED <<chunkVars, agentVars>>

\* ------------------------------------------------ the store's answers
\* fact_pack as a function of what col.query answers, whoever wrote the
\* entries of the persistent collection: entries written by ingest_file,
\* entries with some or none of the metadata keys fact_pack reads, entries
\* with empty values, entries without metadata.
MetaIngested == Metadata(DocChunk(<<"a">>, 2, NameBPdf, "pdf"), 0)
MetaFull == [citeKey |-> <<"k">>, title |-> <<"t">>, source |-> <<"s">>]
MetaSourceOnly == [source |-> <<"s">>, page |-> 1]
MetaBare == [page |-> 1]
MetaEmpty == [citeKey |-> <<>>, title |-> <<>>, source |-> <<>>]
MetaEmptyTitle == [title |-> <<>>, source |-> <<"s">>]
Metas == {MetaIngested, MetaFull, MetaSourceOnly, MetaBare, MetaEmpty,
          MetaEmptyTitle, NoMetadata}

Docs == {<<"a">>, <<"b">>}
Hit(doc, meta) == [document |-> doc, metadata |-> meta]
HitLists(m) == [1..m -> {Hit(d, mt) : d \in Docs, mt \in Metas}]

\* The answers of m hits.
StoreAnswers(m) == {QueryResult(h, d) : h \in HitLists(m), d \in Ascending(m)}

\* The store has answered the query of a fact_pack call.
InitQuery ==
    /\ text = <<>>
    /\ chunk_size = DefaultChunkSize
    /\ overlap = DefaultOverlap
    /\ start = 0
    /\ chunks = <<>>
    /\ covered = {}
    /\ odd = FALSE
    /\ NoAgent
    /\ cpc = "done"
    /\ col = EmptyBag
    /\ \E m \in 0..MaxK :
          \E res \in (IF m = 0 THEN {QueryRaised} ELSE {}) \cup StoreAnswers(m) :
              last = [NoCall EXCEPT !.op = "query", !.res = res,
                                    !.k = Len(FirstOf(res.documents))]

\* Lines 17-47: fact_pack goes on from the store's answer to its return.
FactPackAnswer ==
    /\ last.op = "query"
    /\ FactPackDone(last.k, last.res, fact_pack(last.res))
    /\ UNCHANGED <<chunkVars, agentVars>>

NextQuery == FactPackAnswer

SpecQuery == InitQuery /\ [][NextQuery]_vars

\* ------------------------------------------------ the store's contents
\* get_collection_stats on what the persistent collection can hold, whoever
\* wrote it: entries of ingest_file, entries without a source, an entry
\* whose source is 'unknown', an entry without metadata.
Foreign(id, meta) ==
    [id |-> id, document |-> <<"a">>, embedding |-> Encode(QueryModel, <<"a">>),
     metadata |-> meta]

StoredPool ==
    {Entry(DocChunk(<<"a">>, 1, NameATxt, "txt"), 0, <<"a">>),
     Entry(DocChunk(<<"a">>, 1, NameBPdf, "pdf"), 0, <<"a">>),
     Entry(DocChunk(<<"a">>, 1, NameBPdf, "pdf"), 1, <<"a">>),
     Foreign(<<"x">>, [page |-> 1]),
     Foreign(<<"y">>, [title |-> <<"t">>]),
     Foreign(<<"u">>, [source |-> <<"unknown">>]),
     Foreign(<<"z">>, NoMetadata)}

InitStats ==
    /\ text = <<>>
    /\ chunk_size = DefaultChunkSize
    /\ overlap = DefaultOverlap
    /\ start = 0
    /\ chunks = <<>>
    /\ covered = {}
    /\ odd = FALSE
    /\ NoAgent
    /\ cpc = "done"
    /\ col \in {SetToBag(S) : S \in SUBSET StoredPool}
    /\ last = NoCall

NextStats == GetCollectionStats

SpecStats == InitStats /\ [][NextStats]_vars

\* ------------------------------------------------------- the agent's runs
InitAgent ==
    /\ text = <<>>
    /\ chunk_size = DefaultChunkSize
    /\ overlap = DefaultOverlap
    /\ start = 0
    /\ chunks = <<>>
    /\ covered = {}
    /\ odd = FALSE
    /\ cpc = "done"
    /\ col = EmptyBag
    /\ last = NoCall
    /\ max_steps \in 0..MaxSteps
    /\ step = 0
    /\ trace = <<>>
    /\ context = [completed_tasks |-> <<>>]
    /\ result = NoResult
    /\ apc = "call"

NextAgent == RunAgentCall \/ RunAgentPass \/ RunAgentMaximum

SpecAgent == InitAgent /\ [][NextAgent]_vars

\* ------------------------------------------------- the ingestion process
Init ==
    /\ text = <<>>
    /\ chunk_size = DefaultChunkSize
    /\ overlap = DefaultOverlap
    /\ start = 0
    /\ chunks = <<>>
    /\ covered = {}
    /\ odd = FALSE
    /\ NoAgent
    /\ cpc = "done"
    /\ col = EmptyBag
    /\ last = NoCall

Next ==
    \/ IngestFile
    \/ IngestDirectory
    \/ ClearCollection
    \/ GetCollectionStats
    \/ RetrieveCollectionStats
    \/ FactPack

Spec == Init /\ [][Next]_vars

\* The interpreter goes on to the next pass of the loop as long as there is one.
SpecLoop == InitLoop /\ [][NextChunk]_vars /\ WF_vars(NextChunk)

\* ------------------------------------------------- chunk_text's properties
AllIndices == 0..(Len(text) - 1)

\* C1: for every text and every chunk_size > 0 and overlap with
\* 0 <= overlap < chunk_size, chunk_text terminates: a call with such
\* arguments leads to its return.  (Checked under SpecLoop, where the
\* interpreter never stops in the middle of the loop.)
C1_ChunkTextTerminates ==
    (overlap >= 0 /\ overlap < chunk_size) ~> (cpc = "done")

\* C2: chunk_text called with overlap >= chunk_size on a text longer than
\* chunk_size does not loop for ever: the call returns.
C2_OverlapNotBelowSizeReturns ==
    (overlap >= chunk_size /\ Len(text) > chunk_size) ~> (cpc = "done")

\* C3: for every text and 0 <= overlap < chunk_size, the ranges [start, end)
\* of the windows chunk_text cuts cover the text: the call leads to every
\* character index lying in the range of a window cut.
C3_WindowsCoverText ==
    (overlap >= 0 /\ overlap < chunk_size) ~> (covered = AllIndices)

\* The part of C3 that holds: the windows of a call that returns cover the text.
CoveredOnReturn == cpc = "done" => covered = AllIndices

\* C4: every window chunk_text returns is non-empty after trimming, for every
\* text (the empty and the whitespace-only ones included).
C4_WindowsNonEmpty ==
    cpc = "done" => \A i \in 1..Len(chunks) : Strip(chunks[i]) # <<>>

\* The part of C4 that holds: the windows the loop (lines 149-171) appends
\* are non-empty after trimming.
LoopWindowsNonEmpty ==
    Len(text) > chunk_size => \A i \in 1..Len(chunks) : Strip(chunks[i]) # <<>>

\* C5: chunk_text on a 2500-character text with chunk_size = 1000 and
\* overlap = 200 returns exactly 3 windows.
C5_ScenarioThreeWindows ==
    (/\ cpc = "done"
     /\ Len(text) = ScenarioLen
     /\ chunk_size = DefaultChunkSize
     /\ overlap = DefaultOverlap) => Len(chunks) = 3

\* ------------------------------------------------- ingestion's properties
Returned(op) == last.op = op /\ last.outcome = "return"

\* C6: ingest_file called again on the same unchanged file with the same
\* chunk_size and overlap, both calls returning, leaves the store with the
\* same set of ids and the same number of entries as the first call left it,
\* and no id is stored twice.
C6_ReingestionIdempotent ==
    [][(/\ last'.op = "ingest_file"
        /\ last'.outcome = "return"
        /\ last'.after = "same_ingest_file")
       => (/\ Ids(col') = Ids(col)
           /\ BagCardinality(col') = BagCardinality(col)
           /\ BagCardinality(col') = Cardinality(Ids(col')))]_vars

\* A second ingestion of a file that wrote at least two entries has returned.
C6_Witness ==
    /\ Returned("ingest_file")
    /\ last.after = "same_ingest_file"
    /\ last.upserts >= 2

\* The sum of the counts of the files whose ingest_file returned.
RECURSIVE SumReturned(_)
SumReturned(perFile) ==
    IF perFile = <<>> THEN 0
    ELSE (IF Head(perFile).outcome = "return" THEN Head(perFile).ret ELSE 0)
         + SumReturned(Tail(perFile))

\* C7: ingest_directory never raises; when it returns, every supported file
\* was ingested, those after a file whose ingest_file raised included, and the
\* total returned is the sum of the counts returned by the files whose
\* ingest_file did not raise.
C7_DirectoryPartialFailure ==
    last.op = "ingest_directory" =>
        /\ last.outcome # "raise"
        /\ last.outcome = "return" =>
             /\ last.ret = SumReturned(last.perFile)
             /\ Len(last.perFile) = last.supported
             /\ \A i \in 1..Len(last.perFile) :
                    last.perFile[i].outcome \in {"return", "raise"}

\* A directory call has returned a positive total with a file that raised
\* followed by a file that was ingested.
C7_Witness ==
    /\ Returned("ingest_directory")
    /\ last.ret > 0
    /\ \E i, j \in 1..Len(last.perFile) :
          /\ i < j
          /\ last.perFile[i].outcome = "raise"
          /\ last.perFile[j].outcome = "return"
          /\ last.perFile[j].ret > 0

\* C8: ingest_file returns the number of windows it upserted during the call,
\* and returns 0 without an upsert when process_document yields no chunk.
C8_IngestFileCount ==
    last.op = "ingest_file" =>
        /\ last.outcome = "return" => last.ret = last.upserts
        /\ process_document(last.file) = <<>> =>
             /\ last.outcome = "return"
             /\ last.ret = 0
             /\ last.upserts = 0

\* ingest_file has returned the count of a PDF with a blank page between two
\* pages of text.
C8_Witness ==
    /\ Returned("ingest_file")
    /\ last.file = PdfGood
    /\ last.ret = last.upserts
    /\ last.ret >= 2

\* C9: after any sequence of ingest operations, get_collection_stats() called
\* right after clear_collection(), the store failing neither call, reports
\* total_documents = 0 and no source.
C9_StatsAfterClear ==
    (/\ last.op = "get_collection_stats"
     /\ last.fault = "none"
     /\ last.after \in {"cleared", "cleared_empty"})
    => /\ last.stats.status = "success"
       /\ last.stats.total_documents = 0
       /\ DOMAIN last.stats.sources = {}

\* The statistics were taken right after clear_collection deleted entries.
C9_Witness ==
    /\ last.op = "get_collection_stats"
    /\ last.fault = "none"
    /\ last.after = "cleared"
    /\ last.stats.status = "success"

\* C10: fact_pack on an empty collection (never filled, or just emptied by
\* clear_collection) returns the empty list for every query and every k, and
\* does not raise, whether the store answers the query or fails.
C10_FactPackEmptyCollection ==
    (last.op = "fact_pack" /\ last.empty) =>
        /\ last.outcome = "return"
        /\ last.items = <<>>

\* fact_pack was called right after clear_collection emptied a collection, and
\* the store's query raised.
C10_Witness ==
    /\ last.op = "fact_pack"
    /\ last.empty
    /\ last.after = "cleared"
    /\ last.k = MaxK
    /\ last.fault = "query"

\* ------------------------------------------------- fact_pack's properties
ResDocs == FirstOf(last.res.documents)
ResMetas == FirstOf(last.res.metadatas)
ResDistances == FirstOf(last.res.distances)
\* fact_pack has returned an item for every hit of the store's answer.
Answered == last.op = "fact_pack" /\ last.items # <<>>

\* C11: whenever the store's query (the query's embedding included) fails
\* inside fact_pack, fact_pack returns the empty list: no exception reaches
\* the caller and no item is returned.
C11_QueryFailureReturnsEmpty ==
    (last.op = "fact_pack" /\ last.fault = "query") =>
        /\ last.outcome = "return"
        /\ last.items = <<>>

\* The query of a fact_pack call for k >= 1 items on a collection that holds
\* entries has failed.
C11_Witness ==
    /\ last.op = "fact_pack"
    /\ last.fault = "query"
    /\ ~last.empty
    /\ last.k >= 1

\* C12: every item fact_pack returns has 0.1 <= confidence <= 1.0, for every
\* distance the store reports (a squared L2 distance, never negative).
C12_ConfidenceBounds ==
    last.op = "fact_pack" =>
        \A i \in 1..Len(last.items) :
            /\ 100 <= last.items[i].confidence
            /\ last.items[i].confidence <= 1000

\* Two items were returned, one at the floor and one at the top.
C12_Witness ==
    /\ Answered
    /\ \E i, j \in 1..Len(last.items) :
          /\ ResDistances[i] = 0 /\ last.items[i].confidence = 1000
          /\ ResDistances[j] > 1000 /\ last.items[j].confidence = 100

\* C13: fact_pack returns its items in the order the store returned the hits,
\* so with the hits in non-decreasing distance order the items are in
\* non-increasing confidence order.
C13_RankingOrder ==
    Answered =>
        /\ Len(last.items) = Len(ResDocs)
        /\ \A i \in 1..Len(last.items) : last.items[i].text = ResDocs[i]
        /\ \A i, j \in 1..Len(last.items) :
              (i < j /\ ResDistances[i] <= ResDistances[j])
              => last.items[i].confidence >= last.items[j].confidence

\* Two hits with different texts, distances and confidences were answered.
C13_Witness ==
    /\ Answered
    /\ Len(last.items) = 2
    /\ ResDocs[1] # ResDocs[2]
    /\ ResDistances[1] < ResDistances[2]
    /\ last.items[1].confidence > last.items[2].confidence

\* max(0.1, 1.0 - d), in thousandths, written out.
Floored(d) == IF d >= 900 THEN 100 ELSE 1000 - d

\* C14 as stated: the confidence of the item of a hit with distance d equals
\* max(0.1, 1.0 - d).
C14_ConfidenceExact ==
    Answered =>
        \A i \in 1..Len(last.items) :
            last.items[i].confidence = Floored(ResDistances[i])

\* C14 as amended: the confidence of the item of a hit with distance d is
\* max(0.1, 1.0 - d) rounded to two decimals: a whole number of hundredths
\* within 0.005 of max(0.1, 1.0 - d).
C14_ConfidenceRounded ==
    Answered =>
        \A i \in 1..Len(last.items) :
            /\ last.items[i].confidence % 10 = 0
            /\ last.items[i].confidence - Floored(ResDistances[i]) <= 5
            /\ Floored(ResDistances[i]) - last.items[i].confidence <= 5

\* An item's confidence was rounded up from a third decimal.
C14_Witness ==
    /\ Answered
    /\ \E i \in 1..Len(last.items) :
          /\ ResDistances[i] = 333
          /\ last.items[i].confidence = 670

Present(meta, key) == key \in DOMAIN meta
Synthesized(i) == <<"s", "o", "u", "r", "c", "e", "_">> \o Digits(i)

\* C15: every item's citeKey is the metadata citeKey when present, else the
\* metadata source, else source_{index}, and is in every case a non-empty
\* string, also when the metadata holds an empty citeKey or source.
C15_Citable ==
    Answered =>
        \A i \in 1..Len(last.items) :
            /\ last.items[i].citeKey # <<>>
            /\ last.items[i].citeKey # None
            /\ (Present(ResMetas[i], "citeKey") /\ ResMetas[i].citeKey # <<>>)
               => last.items[i].citeKey = ResMetas[i].citeKey
            /\ (~Present(ResMetas[i], "citeKey") /\ ~Present(ResMetas[i], "source"))
               => last.items[i].citeKey = Synthesized(i - 1)

\* The part of C15 that holds: the order in which the citeKey is resolved.
CiteKeyResolved ==
    Answered =>
        \A i \in 1..Len(last.items) :
            last.items[i].citeKey =
                IF Present(ResMetas[i], "citeKey") /\ ResMetas[i].citeKey # <<>>
                THEN ResMetas[i].citeKey
                ELSE IF Present(ResMetas[i], "source") THEN ResMetas[i].source
                ELSE Synthesized(i - 1)

\* C16 as stated: an item's title is the metadata title when the metadata has
\* one and "Unknown Source" whenever it has none.
C16_TitleOrUnknown ==
    Answered =>
        \A i \in 1..Len(last.items) :
            last.items[i].source.title =
                IF Present(ResMetas[i], "title") THEN ResMetas[i].title
                ELSE <<"Unknown Source">>

\* C16 as amended: an item's title is the metadata title when the metadata
\* has a non-empty one; otherwise it is the metadata source when the metadata
\* has a source, and "Unknown Source" only when it has no source either.
C16_TitleSourceUnknown ==
    Answered =>
        \A i \in 1..Len(last.items) :
            last.items[i].source.title =
                IF Present(ResMetas[i], "title") /\ ResMetas[i].title # <<>>
                THEN ResMetas[i].title
                ELSE IF Present(ResMetas[i], "source") THEN ResMetas[i].source
                ELSE <<"Unknown Source">>

\* Items were returned for a hit with an empty title and a source, and for a
\* hit with neither.
C16_Witness ==
    /\ Answered
    /\ \E i, j \in 1..Len(last.items) :
          /\ ResMetas[i] = MetaEmptyTitle
          /\ last.items[i].source.title = <<"s">>
          /\ ResMetas[j] = MetaBare
          /\ last.items[j].source.title = <<"Unknown Source">>

\* ------------------------------------ statistics' and failures' properties
StatsOps == {"get_collection_stats", "retrieve.get_collection_stats"}

\* C17: get_collection_stats never raises: when the store works it returns
\* {total_documents, sources, status: "success"} computed from all the entries
\* of the collection, on a store error it returns {error, status: "error"},
\* and status is always "success" or "error".
C17_StatsEnvelope ==
    last.op \in StatsOps =>
        /\ last.outcome = "return"
        /\ last.stats.status \in {"success", "error"}
        /\ last.fault = "none" =>
             /\ DOMAIN last.stats = {"total_documents", "sources", "status"}
             /\ last.stats.status = "success"
             /\ last.stats.total_documents = BagCardinality(col)
             /\ last.stats.sources = SourceCounts(col)
        /\ last.fault # "none" =>
             /\ DOMAIN last.stats = {"error", "status"}
             /\ last.stats.status = "error"

\* The part of C17 that holds: the get_collection_stats of ingest.py.
IngestStatsEnvelope == last.op = "get_collection_stats" => C17_StatsEnvelope

\* C18: a failure of the store during ingestion (the upsert inside
\* ingest_file raising) does not leave ingest_file as an exception: the call
\* returns, with the error as its result.
C18_StoreFailureIsResult ==
    last.op = "ingest_file" => last.outcome # "raise"

Suffixed(f, suffix) == Lower(Suffix(f.name)) = suffix

\* The file is one process_document cannot extract: missing, of an unsupported
\* extension, a PDF on which both strategies fail, or an unreadable DOCX, TXT
\* or MD.
Unextractable(f) ==
    \/ ~f.exists
    \/ Lower(Suffix(f.name)) \notin supported_formats
    \/ /\ Suffixed(f, SuffixPdf)
       /\ \E i \in 1..Len(f.pages) : ~f.pages[i].primary
       /\ \E i \in 1..Len(f.pages) : ~f.pages[i].fallback
    \/ /\ ~Suffixed(f, SuffixPdf)
       /\ \E i \in 1..Len(f.pages) : ~f.pages[i].primary

\* C19: for a missing file, an unsupported extension or a failed extraction,
\* process_document returns the empty list, and ingest_file returns 0 for the
\* file without touching the store.
C19_UnextractableFileIngestsNothing ==
    [][(last'.op = "ingest_file" /\ Unextractable(last'.file))
       => (/\ process_document(last'.file) = <<>>
           /\ last'.outcome = "return"
           /\ last'.ret = 0
           /\ last'.upserts = 0
           /\ col' = col)]_vars

\* ingest_file has returned 0 for a PDF on which both strategies fail, the
\* collection holding entries.
C19_Witness ==
    /\ Returned("ingest_file")
    /\ last.file = PdfCorrupt
    /\ last.ret = 0
    /\ BagCardinality(col) > 0

\* A PDF of three pages of text of which the second cannot be extracted.
SecondPageFails(f) ==
    /\ f.exists
    /\ Suffixed(f, SuffixPdf)
    /\ Len(f.pages) = 3
    /\ ~f.pages[2].primary /\ ~f.pages[2].fallback
    /\ \A i \in {1, 3} : /\ f.pages[i].primary /\ f.pages[i].fallback
                         /\ Strip(f.pages[i].text) # <<>>

PagesStored(name) ==
    {e.metadata.page : e \in {x \in BagToSet(col) : x.metadata.source = name}}

\* C20: after the ingestion of a 3-page PDF whose page 2 fails to extract, the
\* store holds entries of the file for page 1 and for page 3.
C20_FailedPageKeepsOthers ==
    (Returned("ingest_file") /\ SecondPageFails(last.file))
    => {1, 3} \subseteq PagesStored(last.file.name)

\* ------------------------------------- chunks', entries' and store's properties
\* C21: every DocumentChunk process_document returns, for every supported
\* format, has a text that is non-empty after trimming and a page >= 1, the
\* page being 1 for DOCX, TXT and MD.
C21_ChunksNonEmptyPaged ==
    last.op = "ingest_file" =>
        \A i \in 1..Len(process_document(last.file)) :
            /\ Strip(process_document(last.file)[i].text) # <<>>
            /\ process_document(last.file)[i].page >= 1
            /\ process_document(last.file)[i].type # "pdf" =>
                   process_document(last.file)[i].page = 1

\* The part of C21 that holds: the pages are 1-based, 1 outside PDF, and the
\* chunks of a PDF are non-empty after trimming.
ChunksPaged ==
    last.op = "ingest_file" =>
        \A i \in 1..Len(process_document(last.file)) :
            /\ process_document(last.file)[i].page >= 1
            /\ process_document(last.file)[i].type # "pdf" =>
                   process_document(last.file)[i].page = 1
            /\ process_document(last.file)[i].type = "pdf" =>
                   Strip(process_document(last.file)[i].text) # <<>>

\* "{source}_{page}_{chunk_index}" and the other formats, from a metadata.
Key(m) == <<m.source, m.page, m.chunk_index>>
FormatId(m) == m.source \o <<"_">> \o Digits(m.page) \o <<"_">> \o Digits(m.chunk_index)
FormatCiteKey(m) ==
    m.source \o <<"_", "p">> \o Digits(m.page) \o <<"_">> \o Digits(m.chunk_index)
FormatTitle(m) == m.source \o <<" ", "-", " ", "P", "a", "g", "e", " ">> \o Digits(m.page)

\* C22: in every reachable state of the store, each entry has the id
\* "{source}_{page}_{chunk_index}" of its own metadata, the citeKey
\* "{source}_p{page}_{chunk_index}", the title "{source} - Page {page}" and
\* filename = source, and two entries that differ in (source, page,
\* chunk_index) have different ids.
C22_EntryFormats ==
    /\ \A e \in BagToSet(col) :
          /\ e.id = FormatId(e.metadata)
          /\ e.metadata.citeKey = FormatCiteKey(e.metadata)
          /\ e.metadata.title = FormatTitle(e.metadata)
          /\ e.metadata.filename = e.metadata.source
    /\ \A e1, e2 \in BagToSet(col) :
          Key(e1.metadata) # Key(e2.metadata) => e1.id # e2.id

\* The store holds entries of two sources, and entries of two pages and of
\* two chunk indexes of one source.
C22_Witness ==
    /\ \E e1, e2 \in BagToSet(col) : e1.metadata.source # e2.metadata.source
    /\ \E e1, e2 \in BagToSet(col) :
          /\ e1.metadata.source = e2.metadata.source
          /\ e1.metadata.page # e2.metadata.page
          /\ e1.metadata.chunk_index = e2.metadata.chunk_index
    /\ \E e1, e2 \in BagToSet(col) :
          /\ e1.metadata.source = e2.metadata.source
          /\ e1.metadata.page = e2.metadata.page
          /\ e1.metadata.chunk_index # e2.metadata.chunk_index

\* The positions from lo on, before the raw end, of a period and of the first
\* character of a paragraph break that ends by the raw end.
PeriodsFrom(lo, raw) == {i \in lo..(raw - 1) : text[i + 1] = "."}
BreaksFrom(lo, raw) ==
    {i \in lo..(raw - 2) : text[i + 1] = "\n" /\ text[i + 2] = "\n"}

\* Where the window ends that snaps to the last period from lo on, else to
\* the last paragraph break from lo on, else does not snap.
SnappedFrom(lo, raw) ==
    IF PeriodsFrom(lo, raw) # {} THEN Max(PeriodsFrom(lo, raw)) + 1
    ELSE IF BreaksFrom(lo, raw) # {} THEN Max(BreaksFrom(lo, raw)) + 2
    ELSE raw

\* The first of the last 100 characters of the raw window.
TailStart == Max({start, start + chunk_size - SearchBack})

\* A pass of the loop on a window from start >= 0 whose raw end lies before
\* the end of the text; the window cut ends at start' + overlap.
SnappingPass ==
    /\ cpc = "loop"
    /\ start >= 0
    /\ start + chunk_size < Len(text)

\* C23: a window whose raw end start + chunk_size lies before the end of the
\* text ends right after the last period in the last 100 characters of the
\* raw window if there is one, else right after the last paragraph break
\* there if there is one, else at start + chunk_size.
C23_SnapToLastBoundary ==
    [][SnappingPass =>
          start' + overlap = SnappedFrom(TailStart, start + chunk_size)]_vars

\* What holds instead: the first of the last 100 characters is no boundary to
\* snap to.
SnapAfterTailStart ==
    [][SnappingPass =>
          start' + overlap = SnappedFrom(TailStart + 1, start + chunk_size)]_vars

\* C24: the query path embeds the query with the embedder ingestion used for
\* the stored entries: the query vector fact_pack hands the store comes from
\* the model, and has the dimension, of the embeddings ingest_file upserted.
C24_SameEmbedder ==
    last.op = "fact_pack" =>
        \A e \in BagToSet(col) :
            /\ last.embedder = e.embedding.model
            /\ Dimension(last.embedder) = Dimension(e.embedding.model)

\* The ids ingest_file derives from a file: one per window of each of its
\* document chunks.
DerivedIds(file, size, ov) ==
    UNION {UNION {{ChunkId(doc[k].source, doc[k].page, i - 1) :
                      i \in 1..Len(ChunkText(doc[k].text, size, ov).chunks)} :
                  k \in 1..Len(doc)} :
           doc \in {process_document(file)}}

\* The ids of the files an ingest call processes.
CallIds(call) ==
    IF call.op = "ingest_file" THEN DerivedIds(call.file, call.size, call.ov)
    ELSE UNION {DerivedIds(call.files[j], call.size, call.ov) : j \in 1..Len(call.files)}

\* The entries of the store that a step takes out or changes, and the ids it
\* adds.
Touched == {e \in BagToSet(col) : e \notin BagToSet(col') \/ col'[e] # col[e]}
Added == Ids(col') \ Ids(col)

\* C25: ingest_file and ingest_directory only add or overwrite entries under
\* the ids they derive from the files they process: every other entry is
\* left as it was and no id leaves the store, the ids of a file's former
\* higher chunk indexes included.
C25_IngestFrame ==
    [][last'.op \in {"ingest_file", "ingest_directory"} =>
          /\ Ids(col) \subseteq Ids(col')
          /\ (Touched # {} \/ Added # {}) =>
                 \E ids \in {CallIds(last')} :
                     /\ Added \subseteq ids
                     /\ \A e \in Touched : e.id \in ids]_vars

\* A file has been ingested again with fewer windows than the store holds
\* entries of its former ingestion: an entry of a higher chunk index is left.
C25_Witness ==
    /\ Returned("ingest_file")
    /\ last.upserts >= 1
    /\ \E e \in BagToSet(col) :
          /\ e.metadata.source = last.file.name
          /\ e.id \notin DerivedIds(last.file, last.size, last.ov)
          /\ \E d \in BagToSet(col) :
                /\ d.id \in DerivedIds(last.file, last.size, last.ov)
                /\ d.metadata.page = e.metadata.page
                /\ d.metadata.chunk_index < e.metadata.chunk_index

\* The entries a call of ingest_file on the file writes, in the order of its
\* upserts: the non-blank windows of its document chunks from chunk k on.
RECURSIVE WindowEntries(_, _, _)
WindowEntries(dc, windows, i) ==
    IF i > Len(windows) THEN <<>>
    ELSE IF Strip(windows[i]) = <<>> THEN WindowEntries(dc, windows, i + 1)
    ELSE <<Entry(dc, i - 1, windows[i])>> \o WindowEntries(dc, windows, i + 1)

RECURSIVE Written(_, _, _, _)
Written(dcs, k, size, ov) ==
    IF k > Len(dcs) THEN <<>>
    ELSE WindowEntries(dcs[k], ChunkText(dcs[k].text, size, ov).chunks, 1)
         \o Written(dcs, k + 1, size, ov)

RECURSIVE SumUpserts(_)
SumUpserts(perFile) ==
    IF perFile = <<>> THEN 0
    ELSE perFile[1].upserts + SumUpserts(Tail(perFile))

\* C26: when the embedding or the upsert raises partway through ingest_file,
\* the entries the call upserted before stay in the store; ingest_directory
\* adds nothing to its total for a file that raised, so its total is at most,
\* and can be less than, the number of entries written during the call.
C26_IngestionNotAtomic ==
    /\ (last.op = "ingest_file" /\ last.outcome = "raise") =>
          \A j \in 1..last.upserts :
              Written(process_document(last.file), 1, last.size, last.ov)[j]
                  \in BagToSet(col)
    /\ Returned("ingest_directory") =>
          /\ last.ret = SumReturned(last.perFile)
          /\ last.ret <= SumUpserts(last.perFile)
          /\ \A j \in 1..Len(last.perFile) :
                 last.perFile[j].outcome = "raise" => last.perFile[j].ret = 0

\* ingest_directory has returned a total smaller than the number of entries
\* its files wrote: one of them raised at its second upsert, and the entry of
\* its first upsert is in the store.
C26_Witness ==
    /\ Returned("ingest_directory")
    /\ last.ret < SumUpserts(last.perFile)
    /\ \E j \in 1..Len(last.perFile) :
          /\ last.perFile[j].outcome = "raise"
          /\ last.perFile[j].upserts = 1
          /\ Written(process_document(last.files[j]), 1, last.size, last.ov)[1]
                 \in BagToSet(col)

\* C27: clear_collection never raises: when the store fails on listing or on
\* deleting the ids, the call returns as it does otherwise, with no error
\* value for the caller.
C27_ClearNeverRaises ==
    last.op = "clear_collection" =>
        /\ last.outcome = "return"
        /\ last.value = None

\* clear_collection has returned from a failing col.delete, the collection
\* still holding its entries.
C27_Witness ==
    /\ Returned("clear_collection")
    /\ last.fault = "delete"
    /\ last.cleared = 0
    /\ BagCardinality(col) >= 2

\* The sum of the counts of the sources S.
RECURSIVE SumCounts(_, _)
SumCounts(sources, S) ==
    IF S = {} THEN 0
    ELSE sources[CHOOSE x \in S : TRUE]
         + SumCounts(sources, S \ {CHOOSE x \in S : TRUE})

Sourceless == {e \in BagToSet(col) : "source" \notin DOMAIN e.metadata}

\* C28: in every successful result of get_collection_stats, total_documents is
\* the number of entries in the store at that moment and the sum of the
\* counts in sources, the entries without a source being counted under
\* "unknown".
C28_StatsTotals ==
    (last.op = "get_collection_stats" /\ last.stats.status = "success") =>
        /\ last.stats.total_documents = BagCardinality(col)
        /\ last.stats.total_documents =
               SumCounts(last.stats.sources, DOMAIN last.stats.sources)
        /\ Sourceless # {} =>
               /\ <<"unknown">> \in DOMAIN last.stats.sources
               /\ last.stats.sources[<<"unknown">>] >= Cardinality(Sourceless)

\* Successful statistics of a store holding two entries without a source and
\* entries of two sources.
C28_Witness ==
    /\ last.op = "get_collection_stats"
    /\ last.stats.status = "success"
    /\ Cardinality(Sourceless) = 2
    /\ Cardinality(DOMAIN last.stats.sources) >= 3

\* ------------------------------------------------- run_agent's properties
\* C29: run_agent records one trace entry per loop step: after a run
\* len(trace) <= max_steps, the steps in the trace are 1, 2, ... without
\* repetition, the run ends right after the first step whose tool is
\* "finish", and "Maximum steps reached" is returned only after max_steps
\* steps.
C29_OneEntryPerStep ==
    /\ apc = "done" => Len(trace) <= max_steps
    /\ \A i \in 1..Len(trace) : trace[i].step = i
    /\ \A i \in 1..Len(trace) :
          trace[i].tool = "finish" => apc = "done" /\ i = Len(trace)
    /\ result = MaximumStepsReached => step = max_steps

\* The part of C29 that holds: the steps recorded never go down or past
\* max_steps, and "Maximum steps reached" comes only after max_steps passes.
StepsRecordedInOrder ==
    /\ \A i \in 1..Len(trace) : trace[i].step \in 1..max_steps
    /\ \A i, j \in 1..Len(trace) : i < j => trace[i].step <= trace[j].step
    /\ result = MaximumStepsReached => step = max_steps

====
